---- MODULE Spec2Model ----
(***************************************************************************)
(* A model of the SDL2pp wrapper library: the owning wrappers (window,     *)
(* renderer, texture, surface), the initialisation contexts (SDL2, IMG),   *)
(* the event queue (event_queue_t) with its filter and watches,            *)
(* texture_lock, create_window_and_renderer and the setters and queries    *)
(* that translate SDL's return codes.  The SDL library itself is           *)
(* modelled by the calls the wrappers issue to it and by the result of     *)
(* each call.                                                              *)
(***************************************************************************)
EXTENDS Integers, Sequences, FiniteSets, TLC

\* ------------------------------------------------------------------ bounds
MaxObjs == 3
MaxHandles == 2
MaxCtx == 3
MaxQueue == 3
MaxBuf == 2
MaxAdd == 2
MaxWatchers == 2
MaxLocks == 2

Objs == 1..MaxObjs
Handles == 1..MaxHandles
Ctxs == 1..MaxCtx

\* The null pointer; native handles are 1..MaxHandles.
nullptr == 0

Kinds == {"window", "renderer", "texture", "surface"}

\* The SDL function that releases a native handle of each kind.
ReleaseFn(k) ==
    CASE k = "window" -> "SDL_DestroyWindow"
      [] k = "renderer" -> "SDL_DestroyRenderer"
      [] k = "texture" -> "SDL_DestroyTexture"
      [] k = "surface" -> "SDL_FreeSurface"

ReleaseFns == {ReleaseFn(k) : k \in Kinds}

VARIABLES
    objKind,     \* wrapper object -> its class, "none" before construction
    objLife,     \* wrapper object -> "unborn" | "alive" | "dead" (destructed)
    objHandle,   \* wrapper object -> window_ / renderer_ / texture_ / surface_
    handleKind,  \* native handle -> kind of SDL object it is, "none" if not created
    sdlCalls,    \* release function -> native handle -> times it was passed to it
    holders,     \* native handle -> wrappers that ever held it (history)
    movedFrom,   \* wrappers that were the source of a move-construction (history)
    lastW        \* the last wrapper operation and the SDL calls it made (history)

wvars == <<objKind, objLife, objHandle, handleKind, sdlCalls, holders, movedFrom, lastW>>

VARIABLES
    ctxClass,    \* context object -> "SDL2" | "IMG", "none" before construction
    ctxLife,     \* context object -> "unborn" | "alive" | "dead" (destructed)
    ctxValid,    \* context object -> its valid_ member
    ctxRoot,     \* context object -> the object its context was initialised by (history)
    ctxMoved,    \* context objects that were the source of a move-construction (history)
    initRet,     \* initialising SDL2 object -> what SDL_Init returned (history)
    imgInitOk,   \* initialising IMG object -> IMG_Init's mask held every requested flag (history)
    quitCalls,   \* initialising object -> SDL_Quit / IMG_Quit calls made for its context
    imgLoaded    \* SDL_image: the image formats currently initialised

cvars == <<ctxClass, ctxLife, ctxValid, ctxRoot, ctxMoved, initRet, imgInitOk, quitCalls, imgLoaded>>

VARIABLES
    queue,       \* SDL's event queue, oldest event first
    active,      \* SDL's event subsystem is running
    lastQ,       \* the last event_queue_t call: arguments, SDL's answer, result (history)
    it_pc,       \* the traversal loop: "idle" | "test" | "body" | "incr" | "end"
    it_e,        \* iterator::e_
    it_done,     \* iterator::done_
    pending,     \* the queue as it was at begin() (history, kept while undisturbed)
    visited,     \* the events the loop bodies saw, in order (history, kept while undisturbed)
    disturbed    \* events were added to the queue since begin() (history)

qvars == <<queue, active, lastQ>>
ivars == <<it_pc, it_e, it_done, pending, visited, disturbed>>

VARIABLES
    filter,      \* the event types the installed event filter rejects
    watchers,    \* SDL's event watchers: <<function, userdata>> in order of registration
    watched,     \* per callback: add_event_watch calls not yet undone by del_event_watch (history)
    regPair,     \* per callback: the pair its last add_event_watch gave to SDL (history)
    lastP        \* the last push / watch call: arguments, SDL's answer, result (history)

pvars == <<filter, watchers, watched, regPair, lastP>>

VARIABLES
    lockLife,        \* per texture_lock object: "unborn" | "alive" | "destructed"
    lockTexture,     \* texture_lock::texture_
    lockPixels,      \* texture_lock::pixels_ is not null
    lockFrom,        \* the handle of the texture lock() was called on (history)
    unlockArgs,      \* per texture_lock object: the handles it gave to SDL_UnlockTexture (history)
    sdlLockCalls,    \* per handle: calls of SDL_LockTexture (history)
    sdlUnlockCalls   \* per handle: calls of SDL_UnlockTexture (history)

lvars == <<lockLife, lockTexture, lockPixels, lockFrom, unlockArgs, sdlLockCalls, sdlUnlockCalls>>

VARIABLES
    lastF    \* the last create_window_and_renderer call: SDL's answer and the result (history)

fvars == <<lastF>>

VARIABLES
    lastS    \* the last setter / query call: the object, SDL's answer, the result (history)

svars == <<lastS>>

xvars == <<pvars, lvars, fvars, svars>>

vars == <<wvars, cvars, qvars, ivars, xvars>>

NoW == [op |-> "none", obj |-> 0, src |-> 0, h |-> nullptr, released |-> 0]

InitW ==
    /\ objKind = [o \in Objs |-> "none"]
    /\ objLife = [o \in Objs |-> "unborn"]
    /\ objHandle = [o \in Objs |-> nullptr]
    /\ handleKind = [h \in Handles |-> "none"]
    /\ sdlCalls = [f \in ReleaseFns |-> [h \in Handles |-> 0]]
    /\ holders = [h \in Handles |-> {}]
    /\ movedFrom = {}
    /\ lastW = NoW

\* Objects and native handles are taken in order of creation.
IsNextObj(o) == objLife[o] = "unborn" /\ \A p \in Objs : p < o => objLife[p] # "unborn"
IsFreshHandle(h) == handleKind[h] = "none" /\ \A g \in Handles : g < h => handleKind[g] # "none"

\* is_ok() and operator bool: the handle is not null.
is_ok(o) == objHandle[o] # nullptr
operator_bool(o) == objHandle[o] # nullptr

\* A call f(h) to an SDL release function: counted per non-null handle.
SDL_Release(calls, f, h) ==
    IF h = nullptr THEN calls
    ELSE [calls EXCEPT ![f][h] = @ + 1]

\* ------------------------------------------------------- owning wrappers

\* The explicit constructor stores the pointer SDL returned: a fresh native
\* handle, or nullptr when SDL could not create the object.
Ctor(o, k, h) ==
    /\ IsNextObj(o)
    /\ IF h = nullptr THEN TRUE ELSE IsFreshHandle(h)
    /\ objKind' = [objKind EXCEPT ![o] = k]
    /\ objLife' = [objLife EXCEPT ![o] = "alive"]
    /\ objHandle' = [objHandle EXCEPT ![o] = h]
    /\ handleKind' = IF h = nullptr THEN handleKind ELSE [handleKind EXCEPT ![h] = k]
    /\ holders' = IF h = nullptr THEN holders ELSE [holders EXCEPT ![h] = @ \cup {o}]
    /\ lastW' = [op |-> "ctor", obj |-> o, src |-> 0, h |-> h, released |-> 0]
    /\ UNCHANGED <<sdlCalls, movedFrom>>

\* What std::exchange(other.window_, nullptr) leaves in other.
exchange_left_copy(h) == h
exchange_left(h) == nullptr

\* Move constructor: window_(std::exchange(other.window_, nullptr)).
MoveCtor(o, s, k) ==
    /\ IsNextObj(o)
    /\ objLife[s] = "alive" /\ objKind[s] = k
    /\ objKind' = [objKind EXCEPT ![o] = k]
    /\ objLife' = [objLife EXCEPT ![o] = "alive"]
    /\ objHandle' = [objHandle EXCEPT ![o] = objHandle[s], ![s] = exchange_left(objHandle[s])]
    /\ holders' = IF objHandle[s] = nullptr THEN holders
                  ELSE [holders EXCEPT ![objHandle[s]] = @ \cup {o}]
    /\ movedFrom' = movedFrom \cup {s}
    /\ lastW' = [op |-> "move", obj |-> o, src |-> s, h |-> objHandle[s], released |-> 0]
    /\ UNCHANGED <<handleKind, sdlCalls>>

\* What destroy() stores in the handle after the release call.
destroy_reset_keep(h) == h
destroy_reset(h) == nullptr

\* destroy(): SDL_DestroyX(x_); x_ = nullptr;  (the call is made for any x_)
Destroy(o, k) ==
    /\ objLife[o] = "alive" /\ objKind[o] = k
    /\ sdlCalls' = SDL_Release(sdlCalls, ReleaseFn(k), objHandle[o])
    /\ objHandle' = [objHandle EXCEPT ![o] = destroy_reset(objHandle[o])]
    /\ lastW' = [op |-> "destroy", obj |-> o, src |-> 0, h |-> objHandle[o], released |-> 1]
    /\ UNCHANGED <<objKind, objLife, handleKind, holders, movedFrom>>

\* The destructor's guard: if (x_) SDL_DestroyX(x_);
dtor_releases(h) == h # nullptr

Dtor(o, k) ==
    /\ objLife[o] = "alive" /\ objKind[o] = k
    /\ sdlCalls' = IF dtor_releases(objHandle[o])
                   THEN SDL_Release(sdlCalls, ReleaseFn(k), objHandle[o])
                   ELSE sdlCalls
    /\ objLife' = [objLife EXCEPT ![o] = "dead"]
    /\ lastW' = [op |-> "dtor", obj |-> o, src |-> 0, h |-> objHandle[o],
                 released |-> IF dtor_releases(objHandle[o]) THEN 1 ELSE 0]
    /\ UNCHANGED <<objKind, objHandle, handleKind, holders, movedFrom>>

window_ctor == \E o \in Objs, h \in Handles \cup {nullptr} : Ctor(o, "window", h)
window_move == \E o \in Objs, s \in Objs : MoveCtor(o, s, "window")
window_destroy == \E o \in Objs : Destroy(o, "window")
window_dtor == \E o \in Objs : Dtor(o, "window")

renderer_ctor == \E o \in Objs, h \in Handles \cup {nullptr} : Ctor(o, "renderer", h)
renderer_move == \E o \in Objs, s \in Objs : MoveCtor(o, s, "renderer")
renderer_destroy == \E o \in Objs : Destroy(o, "renderer")
renderer_dtor == \E o \in Objs : Dtor(o, "renderer")

texture_ctor == \E o \in Objs, h \in Handles \cup {nullptr} : Ctor(o, "texture", h)
texture_move == \E o \in Objs, s \in Objs : MoveCtor(o, s, "texture")
texture_destroy == \E o \in Objs : Destroy(o, "texture")
texture_dtor == \E o \in Objs : Dtor(o, "texture")

\* surface has no destroy().
surface_ctor == \E o \in Objs, h \in Handles \cup {nullptr} : Ctor(o, "surface", h)
surface_move == \E o \in Objs, s \in Objs : MoveCtor(o, s, "surface")
surface_dtor == \E o \in Objs : Dtor(o, "surface")

\* ------------------------------------------------- initialisation contexts

\* img_init_flags: JPG, PNG, TIF, WEBP and ALL = JPG | PNG | TIF | WEBP; a
\* flag word is modelled by the set of its bits, 0 by {}.
ImgFlags == {"JPG", "PNG", "TIF", "WEBP"}
IMG_ALL == ImgFlags
ImgRequests == {{"JPG"}, {"PNG"}, {"JPG", "PNG"}, IMG_ALL}

\* SDL_Init returns 0 on success and a negative error code on failure.
SdlInitRets == {0, -1, -2}

InitC ==
    /\ ctxClass = [c \in Ctxs |-> "none"]
    /\ ctxLife = [c \in Ctxs |-> "unborn"]
    /\ ctxValid = [c \in Ctxs |-> FALSE]
    /\ ctxRoot = [c \in Ctxs |-> 0]
    /\ ctxMoved = {}
    /\ imgInitOk = [c \in Ctxs |-> FALSE]
    /\ initRet = [c \in Ctxs |-> 0]
    /\ quitCalls = [c \in Ctxs |-> 0]
    /\ imgLoaded = {}

IsNextCtx(c) == ctxLife[c] = "unborn" /\ \A p \in Ctxs : p < c => ctxLife[p] # "unborn"

\* SDL2(flgs): valid_{SDL_Init(flgs) == 0}
SDL2_valid_nonzero(ret) == ret # 0
SDL2_valid(ret) == ret = 0

SDL2_ctor ==
    \E c \in Ctxs, ret \in SdlInitRets :
        /\ IsNextCtx(c)
        /\ ctxClass' = [ctxClass EXCEPT ![c] = "SDL2"]
        /\ ctxLife' = [ctxLife EXCEPT ![c] = "alive"]
        /\ ctxValid' = [ctxValid EXCEPT ![c] = SDL2_valid(ret)]
        /\ ctxRoot' = [ctxRoot EXCEPT ![c] = c]
        /\ initRet' = [initRet EXCEPT ![c] = ret]
        /\ UNCHANGED <<ctxMoved, imgInitOk, quitCalls, imgLoaded>>

\* SDL2(SDL2&& other) = default: copies valid_ and leaves other as it was.
SDL2_move ==
    \E c \in Ctxs, s \in Ctxs :
        /\ IsNextCtx(c)
        /\ ctxLife[s] = "alive" /\ ctxClass[s] = "SDL2"
        /\ ctxClass' = [ctxClass EXCEPT ![c] = "SDL2"]
        /\ ctxLife' = [ctxLife EXCEPT ![c] = "alive"]
        /\ ctxValid' = [ctxValid EXCEPT ![c] = ctxValid[s]]
        /\ ctxRoot' = [ctxRoot EXCEPT ![c] = ctxRoot[s]]
        /\ ctxMoved' = ctxMoved \cup {s}
        /\ UNCHANGED <<imgInitOk, initRet, quitCalls, imgLoaded>>

\* ~SDL2(): if (valid_) SDL_Quit();
SDL2_dtor ==
    \E c \in Ctxs :
        /\ ctxLife[c] = "alive" /\ ctxClass[c] = "SDL2"
        /\ ctxLife' = [ctxLife EXCEPT ![c] = "dead"]
        /\ quitCalls' = IF ctxValid[c] THEN [quitCalls EXCEPT ![ctxRoot[c]] = @ + 1]
                        ELSE quitCalls
        /\ UNCHANGED <<ctxClass, ctxValid, ctxRoot, ctxMoved, imgInitOk, initRet, imgLoaded>>

SDL2_is_ok(c) == ctxValid[c]
SDL2_operator_bool(c) == ctxValid[c]

\* IMG_Init(flags) loads what it can of the requested formats that are not
\* loaded yet and returns the bitmask of all formats now initialised.
\* IMG(flgs): valid_{IMG_Init(flgs) == 0}
IMG_valid(ret) == ret = {}

IMG_ctor ==
    \E c \in Ctxs, flgs \in ImgRequests :
        \E loaded \in SUBSET (flgs \ imgLoaded) :
            LET ret == imgLoaded \cup loaded IN
            /\ IsNextCtx(c)
            /\ imgLoaded' = ret
            /\ ctxClass' = [ctxClass EXCEPT ![c] = "IMG"]
            /\ ctxLife' = [ctxLife EXCEPT ![c] = "alive"]
            /\ ctxValid' = [ctxValid EXCEPT ![c] = IMG_valid(ret)]
            /\ ctxRoot' = [ctxRoot EXCEPT ![c] = c]
            /\ imgInitOk' = [imgInitOk EXCEPT ![c] = flgs \subseteq ret]
            /\ UNCHANGED <<ctxMoved, initRet, quitCalls>>

\* IMG(IMG&& other): valid_(std::exchange(other.valid_, false))
IMG_move ==
    \E c \in Ctxs, s \in Ctxs :
        /\ IsNextCtx(c)
        /\ ctxLife[s] = "alive" /\ ctxClass[s] = "IMG"
        /\ ctxClass' = [ctxClass EXCEPT ![c] = "IMG"]
        /\ ctxLife' = [ctxLife EXCEPT ![c] = "alive"]
        /\ ctxValid' = [ctxValid EXCEPT ![c] = ctxValid[s], ![s] = FALSE]
        /\ ctxRoot' = [ctxRoot EXCEPT ![c] = ctxRoot[s]]
        /\ ctxMoved' = ctxMoved \cup {s}
        /\ UNCHANGED <<imgInitOk, initRet, quitCalls, imgLoaded>>

\* ~IMG(): if (valid_) IMG_Quit();   IMG_Quit unloads every format.
IMG_dtor ==
    \E c \in Ctxs :
        /\ ctxLife[c] = "alive" /\ ctxClass[c] = "IMG"
        /\ ctxLife' = [ctxLife EXCEPT ![c] = "dead"]
        /\ quitCalls' = IF ctxValid[c] THEN [quitCalls EXCEPT ![ctxRoot[c]] = @ + 1]
                        ELSE quitCalls
        /\ imgLoaded' = IF ctxValid[c] THEN {} ELSE imgLoaded
        /\ UNCHANGED <<ctxClass, ctxValid, ctxRoot, ctxMoved, imgInitOk, initRet>>

IMG_is_ok(c) == ctxValid[c]
IMG_operator_bool(c) == ctxValid[c]

\* ------------------------------------------------------------ event queue

\* SDL_Event: its type and the rest of its content.  Two events share type 2.
EventTypes == {1, 2, 3}
Events == {[type |-> 1, data |-> 1], [type |-> 2, data |-> 1],
           [type |-> 2, data |-> 2], [type |-> 3, data |-> 1]}
\* SDL_Event e{}
ZeroEvent == [type |-> 0, data |-> 0]

\* The least and the greatest event type.
SDL_FIRSTEVENT == CHOOSE t \in EventTypes : \A u \in EventTypes : t <= u
SDL_LASTEVENT == CHOOSE t \in EventTypes : \A u \in EventTypes : u <= t

\* The events a caller of add() passes.
AddedEvents == {[type |-> 1, data |-> 1], [type |-> 2, data |-> 2]}

SeqsUpTo(S, n) == UNION {[1..k -> S] : k \in 0..n}

NoQ == [op |-> "none", qBefore |-> <<>>, n |-> 0, null |-> FALSE, lo |-> 0, hi |-> 0,
        evs |-> <<>>, rc |-> 0, off |-> 0, opt |-> <<>>, out |-> <<>>]

InitQ ==
    /\ queue = <<>>
    /\ active = TRUE
    /\ lastQ = NoQ

InitI ==
    /\ it_pc = "idle"
    /\ it_e = ZeroEvent
    /\ it_done = FALSE
    /\ pending = <<>>
    /\ visited = <<>>
    /\ disturbed = FALSE

\* SDL_PollEvent(&e): removes the oldest event into e and returns 1, or
\* returns 0 and leaves e alone when there is none.
SDL_PollEvent(q, act, e) ==
    IF act /\ q # <<>>
    THEN [rc |-> 1, q |-> Tail(q), e |-> Head(q)]
    ELSE [rc |-> 0, q |-> q, e |-> e]

\* SDL_AddEvent: appends unless the queue holds its maximum of events.
RECURSIVE SDL_AddEvents(_, _, _)
SDL_AddEvents(q, evs, used) ==
    IF evs = <<>> THEN [rc |-> used, q |-> q, buf |-> <<>>]
    ELSE IF Len(q) >= MaxQueue THEN SDL_AddEvents(q, Tail(evs), used)
    ELSE SDL_AddEvents(Append(q, Head(evs)), Tail(evs), used + 1)

\* The SDL_PEEKEVENT / SDL_GETEVENT loop of SDL_PeepEvents:
\*   for (entry = head; entry && (!events || used < numevents); entry = next)
\*     if (minType <= type && type <= maxType) {
\*       if (events) { events[used] = entry->event;
\*                     if (action == SDL_GETEVENT) SDL_CutEvent(entry); }
\*       ++used; }
RECURSIVE SDL_PeepLoop(_, _, _, _, _, _, _, _, _)
SDL_PeepLoop(kept, rest, buf, used, n, null, action, lo, hi) ==
    IF rest = <<>> \/ ~(null \/ used < n)
    THEN [rc |-> used, q |-> kept \o rest, buf |-> buf]
    ELSE LET e == Head(rest) IN
         IF lo <= e.type /\ e.type <= hi
         THEN SDL_PeepLoop(IF ~null /\ action = "SDL_GETEVENT" THEN kept ELSE Append(kept, e),
                           Tail(rest),
                           IF null THEN buf ELSE [buf EXCEPT ![used + 1] = e],
                           used + 1, n, null, action, lo, hi)
         ELSE SDL_PeepLoop(Append(kept, e), Tail(rest), buf, used, n, null, action, lo, hi)

\* SDL_PeepEvents(events, numevents, action, minType, maxType): -1 when the
\* event subsystem is not running, else the number of events stored/added.
\* `null` says that the events pointer is NULL.
SDL_PeepEvents(q, act, buf, n, null, action, lo, hi) ==
    IF ~act THEN [rc |-> -1, q |-> q, buf |-> buf]
    ELSE IF action = "SDL_ADDEVENT" THEN SDL_AddEvents(q, buf, 0)
    ELSE SDL_PeepLoop(<<>>, q, buf, 0, n, null, action, lo, hi)

\* pump(): SDL_PumpEvents() gathers an event from the input devices.
pump ==
    \E e \in Events :
        /\ active /\ Len(queue) < MaxQueue
        /\ queue' = Append(queue, e)
        /\ lastQ' = [NoQ EXCEPT !.op = "pump", !.qBefore = queue]
        /\ disturbed' = (disturbed \/ it_pc # "idle")
        /\ pending' = IF disturbed' THEN <<>> ELSE pending
        /\ visited' = IF disturbed' THEN <<>> ELSE visited
        /\ UNCHANGED <<active, it_pc, it_e, it_done>>

\* SDL_Quit() / SDL_Init(): the event subsystem stops, dropping its queue, and starts.
SDL_StopEventLoop ==
    /\ active
    /\ active' = FALSE
    /\ queue' = <<>>
    /\ lastQ' = [NoQ EXCEPT !.op = "stop", !.qBefore = queue]
    /\ UNCHANGED ivars

SDL_StartEventLoop ==
    /\ ~active
    /\ active' = TRUE
    /\ lastQ' = [NoQ EXCEPT !.op = "start", !.qBefore = queue]
    /\ UNCHANGED <<queue, ivars>>

\* poll(): SDL_Event e{}; if (SDL_PollEvent(&e)) return e; return {};
poll_has_value_always(rc) == TRUE
poll_has_value(rc) == rc # 0

poll ==
    LET r == SDL_PollEvent(queue, active, ZeroEvent) IN
    /\ queue' = r.q
    /\ lastQ' = [NoQ EXCEPT !.op = "poll", !.qBefore = queue, !.rc = r.rc,
                            !.opt = IF poll_has_value(r.rc) THEN <<r.e>> ELSE <<>>]
    /\ UNCHANGED <<active, ivars>>

\* add(events): num = SDL_PeepEvents(data, size, SDL_ADDEVENT, ...);
\*              if (num >= 0) return size_t(num); return {};
add_has_value_positive(num) == num > 0
add_has_value(num) == num >= 0

add ==
    \E evs \in SeqsUpTo(AddedEvents, MaxAdd) :
        LET r == SDL_PeepEvents(queue, active, evs, Len(evs), FALSE, "SDL_ADDEVENT",
                                SDL_FIRSTEVENT, SDL_LASTEVENT) IN
        /\ queue' = r.q
        /\ lastQ' = [NoQ EXCEPT !.op = "add", !.qBefore = queue, !.evs = evs, !.n = Len(evs),
                                !.rc = r.rc,
                                !.opt = IF add_has_value(r.rc) THEN <<r.rc>> ELSE <<>>]
        /\ UNCHANGED <<active, ivars>>

\* peek / remove: num_events = SDL_PeepEvents(to_address(first), distance(first, last),
\*                                             action, min, max);
\*                return num_events > 0 ? first + num_events : first;
\* The result is modelled by its offset from first.
peep_result(num) == IF num > 0 THEN num ELSE 0

\* The output range [first, last): n events, or an empty range at a null pointer.
PeepArgs == {a \in [n : 0..MaxBuf, null : BOOLEAN, lo : EventTypes, hi : EventTypes] :
                a.null => a.n = 0}

Peep(op, action) ==
    \E a \in PeepArgs :
        LET buf0 == [i \in 1..a.n |-> ZeroEvent]
            r == SDL_PeepEvents(queue, active, buf0, a.n, a.null, action, a.lo, a.hi) IN
        /\ queue' = r.q
        /\ lastQ' = [NoQ EXCEPT !.op = op, !.qBefore = queue, !.n = a.n, !.null = a.null,
                                !.lo = a.lo, !.hi = a.hi, !.rc = r.rc,
                                !.off = peep_result(r.rc), !.out = r.buf]
        /\ UNCHANGED <<active, ivars>>

peek == Peep("peek", "SDL_PEEKEVENT")
remove == Peep("remove", "SDL_GETEVENT")

\* ------------------------------------------------------ event queue iterator

\* done_(SDL_PollEvent(&e_) == 0)
iterator_done_inverted(rc) == rc # 0
iterator_done(rc) == rc = 0

\* begin(): iterator{} polls the first event.
begin ==
    /\ it_pc \in {"idle", "end"}
    /\ LET r == SDL_PollEvent(queue, active, ZeroEvent) IN
        /\ queue' = r.q
        /\ it_e' = r.e
        /\ it_done' = iterator_done(r.rc)
    /\ pending' = queue
    /\ visited' = <<>>
    /\ disturbed' = FALSE
    /\ it_pc' = "test"
    /\ UNCHANGED <<active, lastQ>>

\* it != end(): return !done_;
iterator_neq ==
    /\ it_pc = "test"
    /\ it_pc' = IF ~it_done THEN "body" ELSE "end"
    /\ UNCHANGED <<qvars, it_e, it_done, pending, visited, disturbed>>

\* the loop body uses *it, which is e_.
iterator_deref ==
    /\ it_pc = "body"
    /\ visited' = IF disturbed THEN visited ELSE Append(visited, it_e)
    /\ it_pc' = "incr"
    /\ UNCHANGED <<qvars, it_e, it_done, pending, disturbed>>

\* ++it: done_ = (SDL_PollEvent(&e_) == 0);
iterator_incr ==
    /\ it_pc = "incr"
    /\ LET r == SDL_PollEvent(queue, active, it_e) IN
        /\ queue' = r.q
        /\ it_e' = r.e
        /\ it_done' = iterator_done(r.rc)
    /\ it_pc' = "test"
    /\ UNCHANGED <<active, lastQ, pending, visited, disturbed>>

\* ------------------------------------------------- push and event watches

\* enum class push_result : int { SUCCESS = 1, FILTERED = 0, FAILED = -1 }:
\* the enumerator with value v, "none" when no enumerator has that value.
push_result_name(v) ==
    CASE v = 1 -> "SUCCESS"
      [] v = 0 -> "FILTERED"
      [] v = -1 -> "FAILED"
      [] OTHER -> "none"

\* static_cast<push_result>(rc) keeps the value.
push_result_cast_bool(rc) == IF rc # 0 THEN 1 ELSE 0
push_result_cast(rc) == rc

\* The callables given to the add_event_watch / del_event_watch templates,
\* and the function_ref objects given to the event.cpp overloads.
Callbacks == {"f1", "f2"}
FnRefs == {"r1"}
AllCallbacks == Callbacks \cup FnRefs

\* The filters a caller installs, each by the event types it rejects.
Filters == {{}, {2}, EventTypes}

NoCalls == [cb \in AllCallbacks |-> 0]
NoPair == <<"none", "none">>
NoP == [op |-> "none", cb |-> "none", pair |-> NoPair, reg |-> NoPair, e |-> ZeroEvent,
        rc |-> 0, res |-> 0, qBefore |-> <<>>, qAfter |-> <<>>, calls |-> NoCalls, watchedBefore |-> NoCalls]

InitP ==
    /\ filter = {}
    /\ watchers = <<>>
    /\ watched = NoCalls
    /\ regPair = [cb \in AllCallbacks |-> NoPair]
    /\ lastP = NoP

\* SDL_PushEvent(&e): 0 when the event filter rejects the event; otherwise
\* every event watcher is called with its userdata, then the event is added
\* with SDL_PeepEvents(e, 1, SDL_ADDEVENT, 0, 0): -1 when that adds nothing, else 1.
SDL_PushEvent(q, act, flt, ws, e) ==
    IF e.type \in flt THEN [rc |-> 0, q |-> q, calls |-> NoCalls]
    ELSE LET a == SDL_PeepEvents(q, act, <<e>>, 1, FALSE, "SDL_ADDEVENT", 0, 0) IN
         [rc |-> IF a.rc <= 0 THEN -1 ELSE 1,
          q |-> a.q,
          calls |-> [cb \in AllCallbacks |->
                        Cardinality({i \in 1..Len(ws) : ws[i][2] = cb})]]

\* SDL_AddEventWatch(fn, userdata) / SDL_DelEventWatch(fn, userdata): the
\* latter removes the first watcher with that function and that userdata.
SDL_AddEventWatch(ws, fn, ud) == Append(ws, <<fn, ud>>)
SDL_DelEventWatch(ws, fn, ud) ==
    LET hits == {i \in 1..Len(ws) : ws[i] = <<fn, ud>>} IN
    IF hits = {} THEN ws
    ELSE LET k == CHOOSE i \in hits : \A j \in hits : i <= j IN
         SubSeq(ws, 1, k - 1) \o SubSeq(ws, k + 1, Len(ws))

\* set_event_filter(fn): SDL_SetEventFilter(_event_filter_impl<F>, &fn).
set_event_filter ==
    \E rejects \in Filters :
        /\ filter' = rejects
        /\ lastP' = [NoP EXCEPT !.op = "set_event_filter", !.qBefore = queue]
        /\ UNCHANGED <<watchers, watched, regPair>>

\* push(e): return static_cast<push_result>(SDL_PushEvent(&e));
push ==
    \E e \in Events :
        LET r == SDL_PushEvent(queue, active, filter, watchers, e) IN
        /\ queue' = r.q
        /\ lastP' = [NoP EXCEPT !.op = "push", !.e = e, !.rc = r.rc,
                                !.res = push_result_cast(r.rc), !.qBefore = queue, !.qAfter = r.q,
                                !.calls = r.calls, !.watchedBefore = watched]
        /\ UNCHANGED <<filter, watchers, watched, regPair>>

\* A watch call: SDL's watcher list changes, the callback's count of
\* outstanding registrations follows the call made, not what SDL did.
WatchCall(op, cb, pair, ws, delta) ==
    /\ watchers' = ws
    /\ watched' = [watched EXCEPT ![cb] = IF @ + delta < 0 THEN 0 ELSE @ + delta]
    /\ regPair' = IF delta > 0 THEN [regPair EXCEPT ![cb] = pair] ELSE regPair
    /\ lastP' = [NoP EXCEPT !.op = op, !.cb = cb, !.pair = pair, !.reg = regPair[cb],
                            !.qBefore = queue, !.watchedBefore = watched]
    /\ UNCHANGED filter

\* template add_event_watch(F& fn):
\*   SDL_AddEventWatch(detail::_event_watch_impl<F>, std::addressof(fn));
add_event_watch ==
    \E cb \in Callbacks :
        /\ Len(watchers) < MaxWatchers
        /\ WatchCall("add_event_watch", cb, <<"detail::_event_watch_impl<F>", cb>>,
                     SDL_AddEventWatch(watchers, "detail::_event_watch_impl<F>", cb), 1)

\* template del_event_watch(F& fn):
\*   SDL_DelEventWatch(detail::_event_watch_impl<F>, std::addressof(fn));
del_event_watch ==
    \E cb \in Callbacks :
        WatchCall("del_event_watch", cb, <<"detail::_event_watch_impl<F>", cb>>,
                  SDL_DelEventWatch(watchers, "detail::_event_watch_impl<F>", cb), -1)

\* event.cpp, add_event_watch(function_ref fn):
\*   SDL_AddEventWatch(_event_watch_impl, reinterpret_cast<void*>(fn.func_addr()));
add_event_watch_ref ==
    \E cb \in FnRefs :
        /\ Len(watchers) < MaxWatchers
        /\ WatchCall("add_event_watch", cb, <<"_event_watch_impl", cb>>,
                     SDL_AddEventWatch(watchers, "_event_watch_impl", cb), 1)

\* event.cpp, del_event_watch(function_ref fn):
\*   SDL_DelEventWatch(_event_filter_impl, reinterpret_cast<void*>(fn.func_addr()));
del_event_watch_ref ==
    \E cb \in FnRefs :
        WatchCall("del_event_watch", cb, <<"_event_filter_impl", cb>>,
                  SDL_DelEventWatch(watchers, "_event_filter_impl", cb), -1)


\* ------------------------------------------------------------ texture_lock

Locks == 1..MaxLocks
\* A native handle or the null pointer.
HandlesOrNull == Handles \cup {nullptr}

InitL ==
    /\ lockLife = [l \in Locks |-> "unborn"]
    /\ lockTexture = [l \in Locks |-> nullptr]
    /\ lockPixels = [l \in Locks |-> FALSE]
    /\ lockFrom = [l \in Locks |-> nullptr]
    /\ unlockArgs = [l \in Locks |-> <<>>]
    /\ sdlLockCalls = [h \in HandlesOrNull |-> 0]
    /\ sdlUnlockCalls = [h \in HandlesOrNull |-> 0]

IsNextLock(l) == lockLife[l] = "unborn" /\ \A k \in Locks : k < l => lockLife[k] # "unborn"

\* texture_lock(t, pix, pitch) : texture_(t), pixels_(pix), pitch_(pitch)
texture_lock_texture_null(t) == nullptr
texture_lock_texture(t) == t

\* texture::lock() / texture::lock(rect):
\*   SDL_LockTexture(texture_, rect, &pixels, &pitch); return {texture_, pixels, pitch};
\* The result of SDL_LockTexture is not looked at; it fails for a null texture.
Lock(l, o) ==
    /\ IsNextLock(l)
    /\ objKind[o] = "texture" /\ objLife[o] = "alive"
    /\ \E ok \in BOOLEAN :
          /\ objHandle[o] = nullptr => ~ok
          /\ lockPixels' = [lockPixels EXCEPT ![l] = ok]
    /\ sdlLockCalls' = [sdlLockCalls EXCEPT ![objHandle[o]] = @ + 1]
    /\ lockLife' = [lockLife EXCEPT ![l] = "alive"]
    /\ lockTexture' = [lockTexture EXCEPT ![l] = texture_lock_texture(objHandle[o])]
    /\ lockFrom' = [lockFrom EXCEPT ![l] = objHandle[o]]
    /\ UNCHANGED <<unlockArgs, sdlUnlockCalls>>

lock == \E l \in Locks, o \in Objs : Lock(l, o)

\* ~texture_lock(): SDL_UnlockTexture(texture_);
texture_lock_dtor ==
    \E l \in Locks :
        /\ lockLife[l] = "alive"
        /\ lockLife' = [lockLife EXCEPT ![l] = "destructed"]
        /\ unlockArgs' = [unlockArgs EXCEPT ![l] = Append(@, lockTexture[l])]
        /\ sdlUnlockCalls' = [sdlUnlockCalls EXCEPT ![lockTexture[l]] = @ + 1]
        /\ UNCHANGED <<lockTexture, lockPixels, lockFrom, sdlLockCalls>>

\* ------------------------------------------- create_window_and_renderer

\* SDL_CreateWindowAndRenderer(w, h, flags, &window, &renderer): creates the
\* window, then the renderer.  It returns 0 with both created; it returns -1
\* with *window and *renderer null when the window could not be created, and
\* -1 with the window left in *window when the renderer could not be created.
CreateOutcomes == {"ok", "no_window", "no_renderer"}
SDL_CreateWindowAndRenderer(out, hw, hr) ==
    CASE out = "ok" -> [rc |-> 0, w |-> hw, r |-> hr]
      [] out = "no_renderer" -> [rc |-> -1, w |-> hw, r |-> nullptr]
      [] out = "no_window" -> [rc |-> -1, w |-> nullptr, r |-> nullptr]

NoF == [op |-> "none", optional |-> FALSE, rc |-> 0, w |-> nullptr, r |-> nullptr, empty |-> FALSE,
        resW |-> nullptr, resR |-> nullptr, alive |-> {}, destroyed |-> <<>>]

InitF == lastF = NoF

\* The native handles SDL hands out next.
FreshHandles == {h \in Handles : handleKind[h] = "none"}
FirstFresh == CHOOSE h \in FreshHandles : \A g \in FreshHandles : h <= g
SecondFresh == CHOOSE h \in FreshHandles \ {FirstFresh} :
                   \A g \in FreshHandles \ {FirstFresh} : h <= g

\* The native objects a call created, by kind.
Created(c) ==
    [h \in {c.w, c.r} \ {nullptr} |-> IF h = c.w THEN "window" ELSE "renderer"]

\* renderer.cpp, create_window_and_renderer(wh, flags):
\*   SDL_Window* w{nullptr}; SDL_Renderer* r{nullptr};
\*   SDL_CreateWindowAndRenderer(..., &w, &r);
\*   return std::pair<window, renderer>(piecewise_construct, (w), (r));
create_window_and_renderer ==
    \E ow \in Objs, out \in CreateOutcomes :
        /\ IsNextObj(ow) /\ ow + 1 \in Objs
        /\ Cardinality(FreshHandles) >= 2
        /\ LET c == SDL_CreateWindowAndRenderer(out, FirstFresh, SecondFresh)
               made == Created(c)
               or == ow + 1 IN
           /\ objKind' = [objKind EXCEPT ![ow] = "window", ![or] = "renderer"]
           /\ objLife' = [objLife EXCEPT ![ow] = "alive", ![or] = "alive"]
           /\ objHandle' = [objHandle EXCEPT ![ow] = c.w, ![or] = c.r]
           /\ handleKind' = [h \in Handles |->
                                IF h \in DOMAIN made THEN made[h] ELSE handleKind[h]]
           /\ holders' = [h \in Handles |->
                             IF h = c.w /\ h # nullptr THEN holders[h] \cup {ow}
                             ELSE IF h = c.r /\ h # nullptr THEN holders[h] \cup {or}
                             ELSE holders[h]]
           /\ lastW' = [op |-> "ctor", obj |-> or, src |-> 0, h |-> c.r, released |-> 0]
           /\ lastF' = [NoF EXCEPT !.op = "create_window_and_renderer", !.rc = c.rc,
                                   !.w = c.w, !.r = c.r, !.empty = FALSE,
                                   !.resW = c.w, !.resR = c.r, !.alive = DOMAIN made]
           /\ UNCHANGED <<sdlCalls, movedFrom>>

\* include/renderer.hpp, create_window_and_renderer(wh, flags):
\*   if (SDL_CreateWindowAndRenderer(..., &w, &r) == 0)
\*       return std::pair<window, renderer>(piecewise_construct, (*w), (*r));
\*   if (w) SDL_DestroyWindow(w);
\*   if (r) SDL_DestroyRenderer(r);
\*   return {};
create_window_and_renderer_optional ==
    \E ow \in Objs, out \in CreateOutcomes :
        /\ IsNextObj(ow) /\ ow + 1 \in Objs
        /\ Cardinality(FreshHandles) >= 2
        /\ LET c == SDL_CreateWindowAndRenderer(out, FirstFresh, SecondFresh)
               made == Created(c)
               or == ow + 1
               ok == c.rc = 0 IN
           /\ objKind' = IF ok THEN [objKind EXCEPT ![ow] = "window", ![or] = "renderer"]
                         ELSE objKind
           /\ objLife' = IF ok THEN [objLife EXCEPT ![ow] = "alive", ![or] = "alive"]
                         ELSE objLife
           /\ objHandle' = IF ok THEN [objHandle EXCEPT ![ow] = c.w, ![or] = c.r]
                           ELSE objHandle
           /\ handleKind' = [h \in Handles |->
                                IF h \in DOMAIN made THEN made[h] ELSE handleKind[h]]
           /\ holders' = IF ok THEN [holders EXCEPT ![c.w] = @ \cup {ow}, ![c.r] = @ \cup {or}]
                         ELSE holders
           /\ sdlCalls' = IF ok THEN sdlCalls
                          ELSE SDL_Release(SDL_Release(sdlCalls, "SDL_DestroyWindow", c.w),
                                           "SDL_DestroyRenderer", c.r)
           /\ lastW' = IF ok
                       THEN [op |-> "ctor", obj |-> or, src |-> 0, h |-> c.r, released |-> 0]
                       ELSE lastW
           /\ lastF' = [NoF EXCEPT !.op = "create_window_and_renderer", !.optional = TRUE,
                                   !.rc = c.rc, !.w = c.w, !.r = c.r, !.empty = ~ok,
                                   !.resW = IF ok THEN c.w ELSE nullptr,
                                   !.resR = IF ok THEN c.r ELSE nullptr,
                                   !.alive = IF ok THEN DOMAIN made ELSE {},
                                   !.destroyed = IF ok THEN <<>>
                                                 ELSE SelectSeq(<<c.w, c.r>>,
                                                                LAMBDA h : h # nullptr)]
           /\ UNCHANGED movedFrom

\* ------------------------------------------------- setters and queries

NoS == [op |-> "none", obj |-> 0, h |-> nullptr, hAfter |-> nullptr, rc |-> 0,
        ret |-> FALSE, sdlOk |-> FALSE, data |-> 0, opt |-> <<>>]

InitS == lastS = NoS

\* An int-returning SDL call on handle h: 0 on success, -1 on failure; it
\* fails for a null handle.
SDL_IntCall(h, ok) == IF h # nullptr /\ ok THEN 0 ELSE -1

\* `return SDL_X(...) == 0;` and `return SDL_X(...);` (int converted to bool).
returns_eq_zero(rc) == rc = 0
returns_int_as_bool(rc) == rc # 0

\* A bool-returning member function of a wrapper of kind k that forwards to
\* an int-returning SDL call; `compares` says that it compares the result
\* with 0 rather than converting it.
Setter(op, k, compares) ==
    \E o \in Objs, ok \in BOOLEAN :
        /\ objKind[o] = k /\ objLife[o] = "alive"
        /\ UNCHANGED wvars
        /\ LET rc == SDL_IntCall(objHandle[o], ok) IN
           lastS' = [NoS EXCEPT !.op = op, !.obj = o, !.h = objHandle[o],
                                !.hAfter = objHandle'[o], !.rc = rc,
                                !.ret = IF compares THEN returns_eq_zero(rc)
                                        ELSE returns_int_as_bool(rc)]

texture_set_alpha_mod == Setter("texture::set_alpha_mod", "texture", TRUE)
texture_set_blend_mode == Setter("texture::set_blend_mode", "texture", TRUE)
texture_set_color_mod == Setter("texture::set_color_mod", "texture", FALSE)

surface_set_color_key == Setter("surface::set_color_key", "surface", FALSE)
surface_set_alpha_mod == Setter("surface::set_alpha_mod", "surface", TRUE)
surface_set_blend_mode == Setter("surface::set_blend_mode", "surface", TRUE)
surface_set_color_mode == Setter("surface::set_color_mode", "surface", TRUE)
surface_set_palette == Setter("surface::set_palette", "surface", TRUE)
surface_set_rle == Setter("surface::set_rle", "surface", TRUE)

window_set_brightness == Setter("window::set_brightness", "window", TRUE)
window_set_display_mode == Setter("window::set_display_mode", "window", TRUE)
window_set_fullscreen == Setter("window::set_fullscreen", "window", TRUE)
window_set_gamma_ramp == Setter("window::set_gamma_ramp", "window", TRUE)
window_set_input_focus == Setter("window::set_input_focus", "window", TRUE)
window_set_modal_for == Setter("window::set_modal_for", "window", FALSE)
window_set_opacity == Setter("window::set_opacity", "window", TRUE)
window_update_surface == Setter("window::update_surface", "window", TRUE)
window_update_surface_rects ==
    Setter("window::update_surface_rects", "window", FALSE)

\* What an SDL query writes through its output pointers, as one value.
QueryData == {1, 2}

\* An SDL_bool-returning SDL call on handle h: SDL_TRUE (1) or SDL_FALSE (0).
SDL_BoolCall(h, ok) == IF h # nullptr /\ ok THEN 1 ELSE 0

\* `if (SDL_X(...) == 0) return value;` and `if (SDL_X(...) == SDL_TRUE) return value;`
query_has_value_nonzero(rc) == rc # 0
query_has_value(rc) == rc = 0
bool_query_has_value(rc) == rc = 1

\* An optional-returning query of window: the output starts zeroed, SDL
\* fills it in when it succeeds, and the query returns it when the result
\* is 0, or SDL_TRUE for an SDL call that returns SDL_bool.
Query(op, returnsBool) ==
    \E o \in Objs, ok \in BOOLEAN, d \in QueryData :
        /\ objKind[o] = "window" /\ objLife[o] = "alive"
        /\ UNCHANGED wvars
        /\ LET rc == IF returnsBool THEN SDL_BoolCall(objHandle[o], ok)
                     ELSE SDL_IntCall(objHandle[o], ok)
               has == IF returnsBool THEN bool_query_has_value(rc) ELSE query_has_value(rc)
               succeeded == objHandle[o] # nullptr /\ ok
               out == IF succeeded THEN d ELSE 0 IN
           lastS' = [NoS EXCEPT !.op = op, !.obj = o, !.h = objHandle[o],
                                !.hAfter = objHandle'[o], !.rc = rc,
                                !.sdlOk = succeeded, !.data = d,
                                !.opt = IF has THEN <<out>> ELSE <<>>]

window_borders_size == Query("window::borders_size", FALSE)
window_display_mode == Query("window::display_mode", FALSE)
window_wm_info == Query("window::wm_info", TRUE)

\* ------------------------------------------------------- specifications

Init == InitW /\ InitC /\ InitQ /\ InitI /\ InitP /\ InitL /\ InitF /\ InitS

NextWrappers ==
    \/ (window_ctor /\ UNCHANGED <<cvars, qvars, ivars, xvars>>)
    \/ (window_move /\ UNCHANGED <<cvars, qvars, ivars, xvars>>)
    \/ (window_destroy /\ UNCHANGED <<cvars, qvars, ivars, xvars>>)
    \/ (window_dtor /\ UNCHANGED <<cvars, qvars, ivars, xvars>>)
    \/ (renderer_ctor /\ UNCHANGED <<cvars, qvars, ivars, xvars>>)
    \/ (renderer_move /\ UNCHANGED <<cvars, qvars, ivars, xvars>>)
    \/ (renderer_destroy /\ UNCHANGED <<cvars, qvars, ivars, xvars>>)
    \/ (renderer_dtor /\ UNCHANGED <<cvars, qvars, ivars, xvars>>)
    \/ (texture_ctor /\ UNCHANGED <<cvars, qvars, ivars, xvars>>)
    \/ (texture_move /\ UNCHANGED <<cvars, qvars, ivars, xvars>>)
    \/ (texture_destroy /\ UNCHANGED <<cvars, qvars, ivars, xvars>>)
    \/ (texture_dtor /\ UNCHANGED <<cvars, qvars, ivars, xvars>>)
    \/ (surface_ctor /\ UNCHANGED <<cvars, qvars, ivars, xvars>>)
    \/ (surface_move /\ UNCHANGED <<cvars, qvars, ivars, xvars>>)
    \/ (surface_dtor /\ UNCHANGED <<cvars, qvars, ivars, xvars>>)

SpecWrappers == Init /\ [][NextWrappers]_vars

NextContexts ==
    \/ (SDL2_ctor /\ UNCHANGED <<wvars, qvars, ivars, xvars>>)
    \/ (SDL2_move /\ UNCHANGED <<wvars, qvars, ivars, xvars>>)
    \/ (SDL2_dtor /\ UNCHANGED <<wvars, qvars, ivars, xvars>>)
    \/ (IMG_ctor /\ UNCHANGED <<wvars, qvars, ivars, xvars>>)
    \/ (IMG_move /\ UNCHANGED <<wvars, qvars, ivars, xvars>>)
    \/ (IMG_dtor /\ UNCHANGED <<wvars, qvars, ivars, xvars>>)

SpecContexts == Init /\ [][NextContexts]_vars

NextQueue ==
    \/ (pump /\ UNCHANGED <<wvars, cvars, xvars>>)
    \/ (SDL_StopEventLoop /\ UNCHANGED <<wvars, cvars, xvars>>)
    \/ (SDL_StartEventLoop /\ UNCHANGED <<wvars, cvars, xvars>>)
    \/ (poll /\ UNCHANGED <<wvars, cvars, xvars>>)
    \/ (add /\ UNCHANGED <<wvars, cvars, xvars>>)

SpecQueue == Init /\ [][NextQueue]_vars

NextPeep ==
    \/ (pump /\ UNCHANGED <<wvars, cvars, xvars>>)
    \/ (SDL_StopEventLoop /\ UNCHANGED <<wvars, cvars, xvars>>)
    \/ (SDL_StartEventLoop /\ UNCHANGED <<wvars, cvars, xvars>>)
    \/ (peek /\ UNCHANGED <<wvars, cvars, xvars>>)
    \/ (remove /\ UNCHANGED <<wvars, cvars, xvars>>)

SpecPeep == Init /\ [][NextPeep]_vars

NextIterator ==
    \/ (pump /\ UNCHANGED <<wvars, cvars, xvars>>)
    \/ (begin /\ UNCHANGED <<wvars, cvars, xvars>>)
    \/ (iterator_neq /\ UNCHANGED <<wvars, cvars, xvars>>)
    \/ (iterator_deref /\ UNCHANGED <<wvars, cvars, xvars>>)
    \/ (iterator_incr /\ UNCHANGED <<wvars, cvars, xvars>>)

SpecIterator == Init /\ [][NextIterator]_vars

NextPush ==
    \/ (push /\ UNCHANGED <<wvars, cvars, active, lastQ, ivars, lvars, fvars, svars>>)
    \/ (set_event_filter /\ UNCHANGED <<wvars, cvars, qvars, ivars, lvars, fvars, svars>>)
    \/ (poll /\ UNCHANGED <<wvars, cvars, xvars>>)
    \/ (SDL_StopEventLoop /\ UNCHANGED <<wvars, cvars, xvars>>)
    \/ (SDL_StartEventLoop /\ UNCHANGED <<wvars, cvars, xvars>>)

SpecPush == Init /\ [][NextPush]_vars

NextWatch ==
    \/ (push /\ UNCHANGED <<wvars, cvars, active, lastQ, ivars, lvars, fvars, svars>>)
    \/ (add_event_watch /\ UNCHANGED <<wvars, cvars, qvars, ivars, lvars, fvars, svars>>)
    \/ (del_event_watch /\ UNCHANGED <<wvars, cvars, qvars, ivars, lvars, fvars, svars>>)
    \/ (add_event_watch_ref /\ UNCHANGED <<wvars, cvars, qvars, ivars, lvars, fvars, svars>>)
    \/ (del_event_watch_ref /\ UNCHANGED <<wvars, cvars, qvars, ivars, lvars, fvars, svars>>)

SpecWatch == Init /\ [][NextWatch]_vars

NextLock ==
    \/ (texture_ctor /\ UNCHANGED <<cvars, qvars, ivars, xvars>>)
    \/ (texture_move /\ UNCHANGED <<cvars, qvars, ivars, xvars>>)
    \/ (lock /\ UNCHANGED <<wvars, cvars, qvars, ivars, pvars, fvars, svars>>)
    \/ (texture_lock_dtor /\ UNCHANGED <<wvars, cvars, qvars, ivars, pvars, fvars, svars>>)

SpecLock == Init /\ [][NextLock]_vars

NextFactory ==
    \/ (create_window_and_renderer /\ UNCHANGED <<cvars, qvars, ivars, pvars, lvars, svars>>)
    \/ (create_window_and_renderer_optional /\ UNCHANGED <<cvars, qvars, ivars, pvars, lvars, svars>>)
    \/ (window_move /\ UNCHANGED <<cvars, qvars, ivars, xvars>>)
    \/ (window_destroy /\ UNCHANGED <<cvars, qvars, ivars, xvars>>)
    \/ (window_dtor /\ UNCHANGED <<cvars, qvars, ivars, xvars>>)
    \/ (renderer_move /\ UNCHANGED <<cvars, qvars, ivars, xvars>>)
    \/ (renderer_destroy /\ UNCHANGED <<cvars, qvars, ivars, xvars>>)
    \/ (renderer_dtor /\ UNCHANGED <<cvars, qvars, ivars, xvars>>)

SpecFactory == Init /\ [][NextFactory]_vars

NextTextureSetters ==
    \/ (texture_ctor /\ UNCHANGED <<cvars, qvars, ivars, xvars>>)
    \/ (texture_move /\ UNCHANGED <<cvars, qvars, ivars, xvars>>)
    \/ (texture_set_alpha_mod /\ UNCHANGED <<cvars, qvars, ivars, pvars, lvars, fvars>>)
    \/ (texture_set_blend_mode /\ UNCHANGED <<cvars, qvars, ivars, pvars, lvars, fvars>>)
    \/ (texture_set_color_mod /\ UNCHANGED <<cvars, qvars, ivars, pvars, lvars, fvars>>)

SpecTextureSetters == Init /\ [][NextTextureSetters]_vars

NextSurfaceSetters ==
    \/ (surface_ctor /\ UNCHANGED <<cvars, qvars, ivars, xvars>>)
    \/ (surface_move /\ UNCHANGED <<cvars, qvars, ivars, xvars>>)
    \/ (surface_set_color_key /\ UNCHANGED <<cvars, qvars, ivars, pvars, lvars, fvars>>)
    \/ (surface_set_alpha_mod /\ UNCHANGED <<cvars, qvars, ivars, pvars, lvars, fvars>>)
    \/ (surface_set_blend_mode /\ UNCHANGED <<cvars, qvars, ivars, pvars, lvars, fvars>>)
    \/ (surface_set_color_mode /\ UNCHANGED <<cvars, qvars, ivars, pvars, lvars, fvars>>)
    \/ (surface_set_palette /\ UNCHANGED <<cvars, qvars, ivars, pvars, lvars, fvars>>)
    \/ (surface_set_rle /\ UNCHANGED <<cvars, qvars, ivars, pvars, lvars, fvars>>)

SpecSurfaceSetters == Init /\ [][NextSurfaceSetters]_vars

NextWindowSetters ==
    \/ (window_ctor /\ UNCHANGED <<cvars, qvars, ivars, xvars>>)
    \/ (window_move /\ UNCHANGED <<cvars, qvars, ivars, xvars>>)
    \/ (window_set_brightness /\ UNCHANGED <<cvars, qvars, ivars, pvars, lvars, fvars>>)
    \/ (window_set_display_mode /\ UNCHANGED <<cvars, qvars, ivars, pvars, lvars, fvars>>)
    \/ (window_set_fullscreen /\ UNCHANGED <<cvars, qvars, ivars, pvars, lvars, fvars>>)
    \/ (window_set_gamma_ramp /\ UNCHANGED <<cvars, qvars, ivars, pvars, lvars, fvars>>)
    \/ (window_set_input_focus /\ UNCHANGED <<cvars, qvars, ivars, pvars, lvars, fvars>>)
    \/ (window_set_modal_for /\ UNCHANGED <<cvars, qvars, ivars, pvars, lvars, fvars>>)
    \/ (window_set_opacity /\ UNCHANGED <<cvars, qvars, ivars, pvars, lvars, fvars>>)
    \/ (window_update_surface /\ UNCHANGED <<cvars, qvars, ivars, pvars, lvars, fvars>>)
    \/ (window_update_surface_rects /\ UNCHANGED <<cvars, qvars, ivars, pvars, lvars, fvars>>)

SpecWindowSetters == Init /\ [][NextWindowSetters]_vars

NextWindowQueries ==
    \/ (window_ctor /\ UNCHANGED <<cvars, qvars, ivars, xvars>>)
    \/ (window_move /\ UNCHANGED <<cvars, qvars, ivars, xvars>>)
    \/ (window_borders_size /\ UNCHANGED <<cvars, qvars, ivars, pvars, lvars, fvars>>)
    \/ (window_display_mode /\ UNCHANGED <<cvars, qvars, ivars, pvars, lvars, fvars>>)
    \/ (window_wm_info /\ UNCHANGED <<cvars, qvars, ivars, pvars, lvars, fvars>>)

SpecWindowQueries == Init /\ [][NextWindowQueries]_vars

\* ------------------------------------------------------------- claims

\* Times native handle h was passed to function f / to any release function.
TimesReleased(h) == sdlCalls[ReleaseFn(handleKind[h])][h]
TimesReleasedWrong(h) ==
    Cardinality({f \in ReleaseFns : f # ReleaseFn(handleKind[h]) /\ sdlCalls[f][h] > 0})
AllHoldersDestructed(h) ==
    holders[h] # {} /\ \A o \in holders[h] : objLife[o] = "dead"

\* C1: every non-null native handle is passed to its own SDL release
\* function at most once at any time (no double free), never to another
\* release function, and exactly once by the time every wrapper that ever
\* held it has been destructed (no leak).
C1_ReleasedExactlyOnce ==
    \A h \in Handles :
        handleKind[h] # "none" =>
            /\ TimesReleased(h) <= 1
            /\ TimesReleasedWrong(h) = 0
            /\ AllHoldersDestructed(h) => TimesReleased(h) = 1

\* A handle that went through a move and an explicit destroy(), all of its
\* holders destructed.
C1_Witness ==
    \E h \in Handles :
        /\ Cardinality(holders[h]) >= 2
        /\ AllHoldersDestructed(h)
        /\ TimesReleased(h) = 1
        /\ lastW.op = "dtor" /\ lastW.h = nullptr /\ lastW.obj \in holders[h]
        /\ lastW.obj \notin movedFrom

\* C2: a move-construction leaves the handle `other` held in the new object
\* and a null handle in `other` (is_ok() and the bool conversion false), and
\* the destructor of a moved-from object calls no SDL release function.
C2_MoveTransfersOwnership ==
    /\ lastW.op = "move" =>
          /\ objHandle[lastW.obj] = lastW.h
          /\ objHandle[lastW.src] = nullptr
          /\ ~is_ok(lastW.src) /\ ~operator_bool(lastW.src)
    /\ (lastW.op = "dtor" /\ lastW.obj \in movedFrom) => lastW.released = 0

\* The destructor of the source of a move that transferred a native handle.
C2_Witness ==
    /\ lastW.op = "dtor" /\ lastW.obj \in movedFrom /\ lastW.released = 0
    /\ \E h \in Handles : lastW.obj \in holders[h] /\ Cardinality(holders[h]) >= 2

\* The objects that hold or held the context initialised by r.
Derived(r) == {c \in Ctxs : ctxLife[c] # "unborn" /\ ctxRoot[c] = r}
Sdl2Roots == {c \in Ctxs : ctxClass[c] = "SDL2" /\ ctxRoot[c] = c}
ImgRoots == {c \in Ctxs : ctxClass[c] = "IMG" /\ ctxRoot[c] = c}

\* C3: for an SDL2 context whose SDL_Init succeeded, SDL_Quit is called at
\* most once at any time and exactly once when every object derived from it
\* is destructed; for one whose SDL_Init failed it is never called.
C3_QuitExactlyOnce ==
    \A r \in Sdl2Roots :
        /\ initRet[r] # 0 => quitCalls[r] = 0
        /\ quitCalls[r] <= 1
        /\ (initRet[r] = 0 /\ \A c \in Derived(r) : ctxLife[c] = "dead") => quitCalls[r] = 1

\* C4: a freshly constructed IMG context reports success (is_ok() and the
\* bool conversion) exactly when the mask IMG_Init returned contains every
\* requested flag.
C4_ImgReportsInit ==
    \A r \in ImgRoots :
        (ctxLife[r] = "alive" /\ r \notin ctxMoved) =>
            /\ IMG_is_ok(r) <=> imgInitOk[r]
            /\ IMG_operator_bool(r) <=> imgInitOk[r]

\* C5: an SDL2 context reports success (is_ok() and the bool conversion)
\* exactly when SDL_Init returned 0, and failure for every negative code.
C5_Sdl2ReportsInit ==
    \A r \in Sdl2Roots :
        ctxLife[r] = "alive" =>
            /\ SDL2_is_ok(r) <=> initRet[r] = 0
            /\ SDL2_operator_bool(r) <=> initRet[r] = 0
            /\ initRet[r] < 0 => (~SDL2_is_ok(r) /\ ~SDL2_operator_bool(r))

\* One context that initialised and reports success, one that failed and
\* reports failure.
C5_Witness ==
    \E a \in Sdl2Roots, b \in Sdl2Roots :
        /\ ctxLife[a] = "alive" /\ initRet[a] = 0 /\ SDL2_is_ok(a)
        /\ ctxLife[b] = "alive" /\ initRet[b] < 0 /\ ~SDL2_is_ok(b)

IsPrefix(a, b) == Len(a) <= Len(b) /\ a = SubSeq(b, 1, Len(a))

\* C6: a traversal during which no event is added visits the events pending
\* at begin() in queue order, each once; it ends after as many loop bodies
\* as events were pending, with the queue empty; with no event pending the
\* first comparison with end() ends the loop.
C6_TraversalVisitsPending ==
    ~disturbed =>
        /\ it_pc \in {"test", "body", "incr"} => IsPrefix(visited, pending)
        /\ it_pc = "body" => (Len(visited) < Len(pending) /\ it_e = pending[Len(visited) + 1])
        /\ it_pc = "end" => (visited = pending /\ queue = <<>>)
        /\ (it_pc = "test" /\ pending = <<>>) => it_done

\* A finished undisturbed traversal of at least two events, two of one type.
C6_Witness ==
    /\ it_pc = "end" /\ ~disturbed /\ Len(pending) >= 2 /\ visited = pending
    /\ \E i, j \in 1..Len(pending) : i < j /\ pending[i].type = pending[j].type
                                          /\ pending[i] # pending[j]

\* C7: poll() on a non-empty queue returns the head event and removes just
\* it; on an empty queue it returns an empty optional and changes nothing.
C7_PollTakesHead ==
    lastQ.op = "poll" =>
        IF lastQ.qBefore # <<>>
        THEN lastQ.opt = <<Head(lastQ.qBefore)>> /\ queue = Tail(lastQ.qBefore)
        ELSE lastQ.opt = <<>> /\ queue = lastQ.qBefore

C7_Witness ==
    /\ lastQ.op = "poll" /\ Len(lastQ.qBefore) >= 2
    /\ lastQ.opt = <<Head(lastQ.qBefore)>> /\ queue # <<>>

\* The queued events of q whose type lies in [lo, hi], in queue order.
Matching(q, lo, hi) ==
    LET InRange(e) == lo <= e.type /\ e.type <= hi IN SelectSeq(q, InRange)
Min2(a, b) == IF a <= b THEN a ELSE b
\* q without the first k of its events whose type lies in [lo, hi].
WithoutFirstMatching(q, lo, hi, k) ==
    LET idx == {i \in 1..Len(q) : lo <= q[i].type /\ q[i].type <= hi}
        cut == {i \in idx : Cardinality({j \in idx : j < i}) < k}
        keep == (1..Len(q)) \ cut
        nth(j) == CHOOSE i \in keep : Cardinality({x \in keep : x < i}) = j - 1
    IN [j \in 1..Cardinality(keep) |-> q[nth(j)]]

\* C8: peek(first, last, min, max) copies the first k matching events into
\* the range, k the smaller of their number and distance(first, last),
\* returns first + k, returns first on error, and leaves the queue as it was.
C8_PeekCopiesFirstK ==
    lastQ.op = "peek" =>
        LET m == Matching(lastQ.qBefore, lastQ.lo, lastQ.hi)
            k == Min2(Len(m), lastQ.n) IN
        /\ lastQ.rc >= 0 => (lastQ.off = k /\ SubSeq(lastQ.out, 1, k) = SubSeq(m, 1, k))
        /\ lastQ.rc < 0 => lastQ.off = 0
        /\ lastQ.off <= lastQ.n
        /\ queue = lastQ.qBefore

\* C8 for an output range that does not start at a null pointer.
C8_PeekNonNullRange == lastQ.null \/ C8_PeekCopiesFirstK

\* C9: remove(first, last, min, max) moves the first k matching events out
\* of the queue into [first, first + k) in queue order, k the smaller of
\* their number and distance(first, last), returns first + k, leaves the
\* other events in order, and on error returns first and removes nothing.
C9_RemoveTakesFirstK ==
    lastQ.op = "remove" =>
        LET m == Matching(lastQ.qBefore, lastQ.lo, lastQ.hi)
            k == Min2(Len(m), lastQ.n) IN
        /\ lastQ.rc >= 0 =>
              /\ lastQ.off = k
              /\ SubSeq(lastQ.out, 1, k) = SubSeq(m, 1, k)
              /\ queue = WithoutFirstMatching(lastQ.qBefore, lastQ.lo, lastQ.hi, k)
        /\ lastQ.rc < 0 => (lastQ.off = 0 /\ queue = lastQ.qBefore)

\* C9 for an output range that does not start at a null pointer.
C9_RemoveNonNullRange == lastQ.null \/ C9_RemoveTakesFirstK

\* C10: add(events) returns the number of events appended, between 0 and
\* events.size(), when SDL_PeepEvents reports a count >= 0, and an empty
\* optional exactly when it reports a negative count, the queue unchanged.
C10_AddReportsCount ==
    lastQ.op = "add" =>
        /\ lastQ.rc >= 0 =>
              /\ lastQ.opt = <<Len(queue) - Len(lastQ.qBefore)>>
              /\ lastQ.opt[1] >= 0 /\ lastQ.opt[1] <= Len(lastQ.evs)
              /\ queue = lastQ.qBefore \o SubSeq(lastQ.evs, 1, lastQ.opt[1])
        /\ lastQ.opt = <<>> <=> lastQ.rc < 0
        /\ lastQ.rc < 0 => queue = lastQ.qBefore

\* An add() of which only a part fit into the queue.
C10_Witness ==
    /\ lastQ.op = "add" /\ lastQ.opt # <<>>
    /\ lastQ.opt[1] > 0 /\ lastQ.opt[1] < Len(lastQ.evs)

\* C11: push(e) returns one of the enumerators of push_result: SUCCESS
\* exactly when the event was appended, FILTERED exactly when the event
\* filter rejected it, FAILED for a negative code of SDL_PushEvent; the
\* queue is unchanged unless the result is SUCCESS.
C11_PushReportsOutcome ==
    lastP.op = "push" =>
        LET name == push_result_name(lastP.res) IN
        /\ name \in {"SUCCESS", "FILTERED", "FAILED"}
        /\ name = "SUCCESS" <=> lastP.qAfter = Append(lastP.qBefore, lastP.e)
        /\ name = "FILTERED" <=> lastP.e.type \in filter
        /\ lastP.rc < 0 => name = "FAILED"
        /\ name # "SUCCESS" => lastP.qAfter = lastP.qBefore

\* A push that failed on a full queue while the filter let the event pass.
C11_Witness ==
    /\ lastP.op = "push" /\ push_result_name(lastP.res) = "FAILED"
    /\ active /\ Len(lastP.qBefore) = MaxQueue /\ filter # {}

\* The watch part of C12 for the callbacks in S.
WatchLifecycle(S) ==
    /\ lastP.op = "push" =>
          \A cb \in S :
              /\ lastP.watchedBefore[cb] = 0 => lastP.calls[cb] = 0
              /\ (lastP.watchedBefore[cb] = 1 /\ lastP.qAfter = Append(lastP.qBefore, lastP.e))
                    => lastP.calls[cb] = 1
    /\ (lastP.op = "del_event_watch" /\ lastP.cb \in S /\ lastP.watchedBefore[lastP.cb] > 0)
          => lastP.pair = lastP.reg

\* C12: after add_event_watch(cb) the callback is called once for every
\* event added to the queue; del_event_watch(cb) asks SDL to delete the
\* pair that add_event_watch registered, and afterwards cb is not called.
C12_WatchLifecycle == WatchLifecycle(AllCallbacks)

\* C12 for the add_event_watch / del_event_watch templates of event.hpp.
C12_TemplateWatchLifecycle == WatchLifecycle(Callbacks)

\* C13: every texture_lock calls SDL_UnlockTexture once, on the texture it
\* was obtained from, at its destruction and not before; once no lock is
\* alive SDL_UnlockTexture was called as often as lock(), for each texture.
C13_LockUnlocksOnce ==
    /\ \A l \in Locks :
          /\ lockLife[l] # "destructed" => unlockArgs[l] = <<>>
          /\ lockLife[l] = "destructed" => unlockArgs[l] = <<lockFrom[l]>>
    /\ (\A l \in Locks : lockLife[l] # "alive")
          => \A h \in HandlesOrNull : sdlUnlockCalls[h] = sdlLockCalls[h]

\* Two locks of one texture, both destructed.
C13_Witness ==
    /\ \A l \in Locks : lockLife[l] = "destructed"
    /\ \E h \in Handles : sdlLockCalls[h] >= 2 /\ sdlUnlockCalls[h] = sdlLockCalls[h]

\* The properties of C14 for the last create_window_and_renderer call.
FactoryOutcome ==
    lastF.op = "create_window_and_renderer" =>
        /\ lastF.rc = 0 => (~lastF.empty /\ lastF.resW # nullptr /\ lastF.resR # nullptr)
        /\ lastF.rc # 0 => (lastF.empty /\ lastF.alive = {}
                            /\ lastF.destroyed = SelectSeq(<<lastF.w, lastF.r>>,
                                                           LAMBDA h : h # nullptr))

\* C14 for the create_window_and_renderer of include/renderer.hpp.
C14_OptionalFactory == lastF.optional => FactoryOutcome

\* C14: create_window_and_renderer returns a window and a renderer with
\* non-null handles when SDL_CreateWindowAndRenderer succeeds, an empty
\* result when it fails, and then leaves no native window or renderer
\* alive, what was created being destroyed once.
C14_FactoryReportsFailure == FactoryOutcome

\* The setter called last returned true exactly when SDL returned 0 and
\* false exactly when SDL returned a negative code.
SetterReportsSuccess ==
    /\ lastS.ret <=> lastS.rc = 0
    /\ ~lastS.ret <=> lastS.rc < 0

\* C15: texture::set_alpha_mod, set_blend_mode and set_color_mod return true
\* exactly when the SDL call returned 0, false exactly when it returned a
\* negative code.
C15_TextureSetters ==
    lastS.op \in {"texture::set_alpha_mod", "texture::set_blend_mode",
                  "texture::set_color_mod"} => SetterReportsSuccess

\* C15 for the two setters that compare the result with 0.
C15_ComparingTextureSetters ==
    lastS.op \in {"texture::set_alpha_mod", "texture::set_blend_mode"}
        => SetterReportsSuccess

\* C16: surface::set_color_key, set_alpha_mod, set_blend_mode,
\* set_color_mode, set_palette and set_rle return true exactly when the SDL
\* call returned 0, false exactly when it returned a negative code.
C16_SurfaceSetters ==
    lastS.op \in {"surface::set_color_key", "surface::set_alpha_mod",
                  "surface::set_blend_mode", "surface::set_color_mode",
                  "surface::set_palette", "surface::set_rle"} => SetterReportsSuccess

\* C16 for the five setters that compare the result with 0.
C16_ComparingSurfaceSetters ==
    lastS.op \in {"surface::set_alpha_mod", "surface::set_blend_mode",
                  "surface::set_color_mode", "surface::set_palette", "surface::set_rle"}
        => SetterReportsSuccess

\* C17: window::set_modal_for, update_surface_rects, set_brightness,
\* set_display_mode, set_fullscreen, set_gamma_ramp, set_input_focus,
\* set_opacity and update_surface return true exactly when SDL returned 0,
\* false exactly when it returned a negative code.
C17_WindowSetters ==
    lastS.op \in {"window::set_modal_for", "window::update_surface_rects",
                  "window::set_brightness", "window::set_display_mode",
                  "window::set_fullscreen", "window::set_gamma_ramp",
                  "window::set_input_focus", "window::set_opacity",
                  "window::update_surface"} => SetterReportsSuccess

\* C17 for the seven operations that compare the result with 0.
C17_ComparingWindowSetters ==
    lastS.op \in {"window::set_brightness", "window::set_display_mode",
                  "window::set_fullscreen", "window::set_gamma_ramp",
                  "window::set_input_focus", "window::set_opacity",
                  "window::update_surface"} => SetterReportsSuccess

\* C18: borders_size(), display_mode() and wm_info() return the data SDL
\* filled in exactly when the SDL query reports success and an empty
\* optional exactly when it reports failure; the window's handle is unchanged.
C18_WindowQueries ==
    lastS.op \in {"window::borders_size", "window::display_mode", "window::wm_info"} =>
        /\ lastS.opt = <<lastS.data>> <=> lastS.sdlOk
        /\ lastS.opt = <<>> <=> ~lastS.sdlOk
        /\ lastS.hAfter = lastS.h

\* display_mode() on a valid window returned what SDL filled in.
C18_Witness ==
    /\ lastS.op = "window::display_mode" /\ lastS.h # nullptr
    /\ lastS.sdlOk /\ lastS.opt = <<lastS.data>>
    /\ objHandle[lastS.obj] = lastS.h

====
